---------------------------- MODULE Spec2Model ----------------------------
(***************************************************************************)
(* A model of the Senate Lobbying Disclosure client (src/lda_api.py):      *)
(*   - LDAClient._request, list_filings, list_all_filings as a sequential  *)
(*     state machine talking to a paginated server;                        *)
(*   - the pure helpers _flatten_record, _simplified_row and _write_csv    *)
(*     as operators, exercised by small specifications of their own.       *)
(*                                                                         *)
(* Python values whose type the code inspects (None, int, str, list,       *)
(* dict) are tagged records; a str is a sequence of characters; a Python   *)
(* dict the code builds or indexes is a TLA+ function from keys to values. *)
(***************************************************************************)
EXTENDS Integers, Sequences, FiniteSets, TLC

VARIABLES
    pc,             \* control point of the running client call
    op,             \* which public method was called
    args,           \* the keyword arguments of the call
    server,         \* the remote API's behaviour (environment)
    page,           \* list_all_filings: local `page`
    first_response, \* list_all_filings: local `first_response`
    response,       \* list_all_filings: local `response`
    params,         \* _request: `params` (the filters of the current request)
    url,            \* _request: `url`
    attempts,       \* _request: local `attempts`
    tried,          \* outcomes of the GETs of the current _request call
    httpResp,       \* _request: local `response` (requests.Response)
    heap,           \* the objects (dicts, lists) the call created or received
    trace,          \* requests handed to the transport and pacing sleeps, in order
    result,         \* the value returned to the caller
    err,            \* the exception raised to the caller
    fnPc,           \* control point of the pure-function specifications
    fnIn,           \* input of the pure function under study
    fnOut           \* its output

vars == <<pc, op, args, server, page, first_response, response, params, url,
          attempts, tried, httpResp, heap, trace, result, err, fnPc, fnIn, fnOut>>

clientVars == <<pc, op, args, server, page, first_response, response, params, url,
                attempts, tried, httpResp, heap, trace, result, err>>

fnVars == <<fnPc, fnIn, fnOut>>

-----------------------------------------------------------------------------
(* Bounds of the model *)

MaxPage == 3          \* the server holds at most this many pages
MaxCap == 3           \* max_pages is None or 0..MaxCap
MaxRequests == 4      \* a call is followed for at most this many requests
PerPage == 2          \* records on each server page

-----------------------------------------------------------------------------
(* Python values *)

NoneV == [t |-> "null"]
IntV(n) == [t |-> "int", v |-> n]
StrV(s) == [t |-> "str", v |-> s]
ListV(s) == [t |-> "list", v |-> s]
DictV(f) == [t |-> "dict", v |-> f]
BoolV(b) == [t |-> "bool", v |-> b]
Ref(id) == [t |-> "ref", id |-> id]

EmptyDict == [k \in {} |-> NoneV]

\* Python truthiness: bool(x)
Truthy(x) ==
    CASE x.t = "null" -> FALSE
      [] x.t = "int"  -> x.v # 0
      [] x.t = "bool" -> x.v
      [] x.t = "str"  -> Len(x.v) > 0
      [] x.t = "list" -> Len(x.v) > 0
      [] x.t = "dict" -> DOMAIN x.v # {}
      [] OTHER        -> TRUE

\* dict.get(key, default)
Get(d, k, default) == IF k \in DOMAIN d THEN d[k] ELSE default

\* d.update(e): the entries of e win
Update(d, e) == [k \in DOMAIN d \cup DOMAIN e |-> IF k \in DOMAIN e THEN e[k] ELSE d[k]]

DigitChar(d) == <<"0", "1", "2", "3", "4", "5", "6", "7", "8", "9">>[d + 1]

RECURSIVE Digits(_)
Digits(n) == IF n < 10 THEN <<DigitChar(n)>> ELSE Digits(n \div 10) \o <<DigitChar(n % 10)>>

\* str(n) of an int
StrOfInt(n) == IF n < 0 THEN <<"-">> \o Digits(-n) ELSE Digits(n)


-----------------------------------------------------------------------------
(* Program constants *)

DefaultPageSize == 25
DefaultTimeout == 60
BASE_API_URL == "https://lda.senate.gov/api/v1"

IdentifyingKeys == {"client_id", "client_name", "lobbyist_id", "lobbyist_name"}

-----------------------------------------------------------------------------
(* The remote API (environment): `last` is the first page whose `next` is   *)
(* null, 0 when every page has a `next`; `omit` is the page whose response *)
(* carries no `results` key, 0 when every page carries one.                *)

Servers == [last : 0..MaxPage, omit : 0..MaxPage]

Filing(p, i) == <<p, i>>

PageResults(p) == [i \in 1..PerPage |-> Filing(p, i)]

HasPage(srv, p) == p >= 1 /\ (srv.last = 0 \/ p <= srv.last)

PageUrl(p) == StrV(<<"p", "a", "g", "e", "=">> \o StrOfInt(p))

\* The Page Response of page p
PageJson(srv, p) ==
    LET meta == ("count" :> IntV(IF srv.last = 0 THEN 0 ELSE srv.last * PerPage))
                @@ ("next" :> IF srv.last = 0 \/ p < srv.last THEN PageUrl(p + 1) ELSE NoneV)
                @@ ("previous" :> IF p > 1 THEN PageUrl(p - 1) ELSE NoneV)
    IN  IF srv.omit = p THEN meta ELSE meta @@ ("results" :> ListV(PageResults(p)))

\* What the server answers to GET filings/ with these query parameters
ServerReply(srv, query) ==
    IF HasPage(srv, query["page"].v)
    THEN [status |-> 200, body |-> PageJson(srv, query["page"].v), text |-> <<"j", "s", "o", "n">>]
    ELSE [status |-> 404, body |-> EmptyDict, text |-> <<"I", "n", "v", "a", "l", "i", "d">>]

ServerError == [status |-> 500, body |-> EmptyDict, text |-> <<"o", "o", "p", "s">>]

-----------------------------------------------------------------------------
(* The arguments a caller may pass *)

ClientIds == {NoneV, IntV(0), IntV(7)}
ClientNames == {NoneV, StrV(<<>>), StrV(<<"A">>)}
LobbyistIds == {NoneV, IntV(3)}
LobbyistNames == {NoneV, StrV(<<"B">>)}
AdditionalFilters ==
    { NoneV,
      DictV(EmptyDict),
      DictV("page" :> IntV(2)),
      DictV("client_id" :> IntV(9)),
      DictV("filing_year" :> IntV(2024)) }
MaxPagesChoices == {NoneV} \cup {IntV(m) : m \in 0..MaxCap}
PauseChoices == {0, 1}

-----------------------------------------------------------------------------
(* Errors raised to the caller *)

InvalidQuery == [type |-> "ValueError", kind |-> "InvalidQuery"]
TimeoutFailure(u, t) == [type |-> "RuntimeError", kind |-> "Timeout", url |-> u, timeout |-> t]
HTTPFailure(status, detail) ==
    [type |-> "RuntimeError", kind |-> "HTTPFailure", status |-> status, detail |-> detail]
NetworkError == [type |-> "ConnectionError", kind |-> "Network"]

-----------------------------------------------------------------------------
(* LDAClient.list_filings, lines 114-138 *)

\* lines 114-128: the filters sent for the keyword arguments a and page p
BuildFilters(a, p) ==
    LET f0 == ("page" :> IntV(p)) @@ ("page_size" :> IntV(a.page_size))
        f1 == IF a.client_id # NoneV THEN Update(f0, "client_id" :> a.client_id) ELSE f0
        f2 == IF Truthy(a.client_name) THEN Update(f1, "client_name" :> a.client_name) ELSE f1
        f3 == IF a.lobbyist_id # NoneV THEN Update(f2, "lobbyist_id" :> a.lobbyist_id) ELSE f2
        f4 == IF Truthy(a.lobbyist_name) THEN Update(f3, "lobbyist_name" :> a.lobbyist_name) ELSE f3
    IN  IF Truthy(a.additional_filters) THEN Update(f4, a.additional_filters.v) ELSE f4

\* a variant of HasFilter: page_size counts as an identifying filter
HasFilterCountsPageSize(filters) == DOMAIN filters \cap (IdentifyingKeys \cup {"page_size"}) # {}

\* lines 130-133
HasFilter(filters) == \E key \in IdentifyingKeys : key \in DOMAIN filters

\* a variant of PageGate: the gate opens one page late
PageGateLate(p, filters) == p > 2 /\ ~HasFilter(filters)

\* line 135: the condition under which list_filings raises ValueError
PageGate(p, filters) == p > 1 /\ ~HasFilter(filters)

\* line 67
RequestUrl(path) == BASE_API_URL \o "/" \o path

\* the `page` argument of the list_filings call in progress
LfPage == IF op = "list_filings" THEN args.page ELSE page

Requests == SelectSeq(trace, LAMBDA ev : ev.e = "request")
Sleeps == SelectSeq(trace, LAMBDA ev : ev.e = "sleep")
NumRequests == Len(Requests)

-----------------------------------------------------------------------------
(* Objects: response.json() builds a dict and, under "results", a list;     *)
(* list_all_filings builds the accumulator list and the merged dict.       *)

RespId(k) == <<"resp", k>>
ResultsId(k) == <<"results", k>>
AccId == <<"all_results", 0>>
MergedId == <<"merged", 0>>

Put(h, id, val) == [i \in DOMAIN h \cup {id} |-> IF i = id THEN val ELSE h[i]]

\* line 85: response.json() of the k-th request, as objects on the heap
LoadJson(h, k, body) ==
    IF "results" \in DOMAIN body
    THEN Put(Put(h, ResultsId(k), body["results"].v),
             RespId(k), [body EXCEPT !["results"] = Ref(ResultsId(k))])
    ELSE Put(h, RespId(k), body)

\* the list behind d.get("results", []) of the dict object d
ResultsOf(h, d) == IF "results" \in DOMAIN d THEN h[d["results"].id] ELSE <<>>

-----------------------------------------------------------------------------
(* The initial state: a client was constructed, no call was made yet *)

ClientInit ==
    /\ pc = "idle"
    /\ op = "none"
    /\ args = NoneV
    /\ server \in Servers
    /\ page = 0
    /\ first_response = NoneV
    /\ response = NoneV
    /\ params = EmptyDict
    /\ url = ""
    /\ attempts = 0
    /\ tried = <<>>
    /\ httpResp = NoneV
    /\ heap = [i \in {} |-> <<>>]
    /\ trace = <<>>
    /\ result = NoneV
    /\ err = NoneV

FnIdle ==
    /\ fnPc = "off"
    /\ fnIn = NoneV
    /\ fnOut = NoneV

Init == ClientInit /\ FnIdle

-----------------------------------------------------------------------------
(* Calls *)

CallListFilings ==
    /\ pc = "idle"
    /\ \E cid \in ClientIds, cn \in ClientNames, lid \in LobbyistIds,
          ln \in LobbyistNames, p \in 1..MaxPage, af \in AdditionalFilters :
          args' = [client_id |-> cid, client_name |-> cn, lobbyist_id |-> lid,
                   lobbyist_name |-> ln, page |-> p, page_size |-> DefaultPageSize,
                   additional_filters |-> af, pause_seconds |-> 0, max_pages |-> NoneV]
    /\ op' = "list_filings"
    /\ pc' = "list_filings"
    /\ UNCHANGED <<server, page, first_response, response, params, url, attempts,
                   tried, httpResp, heap, trace, result, err>>
    /\ UNCHANGED fnVars

\* lines 157-159
CallListAllFilings ==
    /\ pc = "idle"
    /\ \E cid \in ClientIds, cn \in ClientNames, lid \in LobbyistIds,
          ln \in LobbyistNames, af \in AdditionalFilters,
          ps \in PauseChoices, mp \in MaxPagesChoices :
          args' = [client_id |-> cid, client_name |-> cn, lobbyist_id |-> lid,
                   lobbyist_name |-> ln, page |-> 1, page_size |-> DefaultPageSize,
                   additional_filters |-> af, pause_seconds |-> ps, max_pages |-> mp]
    /\ op' = "list_all_filings"
    /\ heap' = Put(heap, AccId, <<>>)
    /\ first_response' = NoneV
    /\ page' = 1
    /\ pc' = "list_filings"
    /\ UNCHANGED <<server, response, params, url, attempts, tried, httpResp,
                   trace, result, err>>
    /\ UNCHANGED fnVars

-----------------------------------------------------------------------------
(* list_filings, lines 114-138 (lines 162-170 when called by the pager) *)

\* lines 135-136: raise ValueError; list_all_filings does not catch it
ListFilingsRaise ==
    /\ pc = "list_filings"
    /\ PageGate(LfPage, BuildFilters(args, LfPage))
    /\ err' = InvalidQuery
    /\ pc' = "raised"
    /\ UNCHANGED <<op, args, server, page, first_response, response, params, url,
                   attempts, tried, httpResp, heap, trace, result>>
    /\ UNCHANGED fnVars

\* line 138 and lines 67-68: enter _request("filings/", params=filters)
ListFilingsRequest ==
    /\ pc = "list_filings"
    /\ ~PageGate(LfPage, BuildFilters(args, LfPage))
    /\ NumRequests < MaxRequests
    /\ params' = BuildFilters(args, LfPage)
    /\ url' = RequestUrl("filings/")
    /\ attempts' = 0
    /\ tried' = <<>>
    /\ trace' = Append(trace, [e |-> "request", params |-> BuildFilters(args, LfPage)])
    /\ pc' = "get"
    /\ UNCHANGED <<op, args, server, page, first_response, response, httpResp,
                   heap, result, err>>
    /\ UNCHANGED fnVars

-----------------------------------------------------------------------------
(* LDAClient._request, lines 65-85 *)

\* a variant of RetryAllowed: a second retry
RetryAllowedTwice(att) == ~(att > 2)

\* line 75: a timeout on this attempt is retried unless attempts >= 2
RetryAllowed(att) == ~(att >= 2)

\* line 81: response.raise_for_status() raises HTTPError for 4xx and 5xx
RaisesForStatus(status) == status >= 400 /\ status < 600

\* lines 70-73: session.get returned a response
GetResponse ==
    /\ pc = "get"
    /\ attempts' = attempts + 1
    /\ tried' = Append(tried, "response")
    /\ httpResp' \in {ServerReply(server, params), ServerError}
    /\ pc' = "status"
    /\ UNCHANGED <<op, args, server, page, first_response, response, params, url,
                   heap, trace, result, err>>
    /\ UNCHANGED fnVars

\* lines 70-79: session.get raised Timeout
GetTimeout ==
    /\ pc = "get"
    /\ attempts' = attempts + 1
    /\ tried' = Append(tried, "timeout")
    /\ IF RetryAllowed(attempts + 1)
       THEN /\ pc' = "retry_sleep"
            /\ err' = err
       ELSE /\ pc' = "raised"
            /\ err' = TimeoutFailure(url, DefaultTimeout)
    /\ UNCHANGED <<op, args, server, page, first_response, response, params, url,
                   httpResp, heap, trace, result>>
    /\ UNCHANGED fnVars

\* line 72: session.get raised another RequestException, which nothing catches
GetNetworkError ==
    /\ pc = "get"
    /\ attempts' = attempts + 1
    /\ tried' = Append(tried, "neterr")
    /\ err' = NetworkError
    /\ pc' = "raised"
    /\ UNCHANGED <<op, args, server, page, first_response, response, params, url,
                   httpResp, heap, trace, result>>
    /\ UNCHANGED fnVars

\* line 79: time.sleep(1), then the loop's next attempt
RetrySleep ==
    /\ pc = "retry_sleep"
    /\ pc' = "get"
    /\ UNCHANGED <<op, args, server, page, first_response, response, params, url,
                   attempts, tried, httpResp, heap, trace, result, err>>
    /\ UNCHANGED fnVars

\* a variant of StatusRaise: the pager swallows the failure and returns what it has
StatusRaiseSwallowed ==
    /\ pc = "status"
    /\ RaisesForStatus(httpResp.status)
    /\ op = "list_all_filings" /\ first_response # NoneV
    /\ heap' = Put(heap, MergedId,
                   Update(heap[first_response.id],
                          ("results" :> Ref(AccId)) @@ ("fetched_pages" :> IntV(page - 1))))
    /\ result' = Ref(MergedId)
    /\ pc' = "returned"
    /\ UNCHANGED <<op, args, server, page, first_response, response, params, url,
                   attempts, tried, httpResp, trace, err>>
    /\ UNCHANGED fnVars

\* lines 80-84: raise_for_status raised
StatusRaise ==
    /\ pc = "status"
    /\ RaisesForStatus(httpResp.status)
    /\ err' = HTTPFailure(httpResp.status, httpResp.text)
    /\ pc' = "raised"
    /\ UNCHANGED <<op, args, server, page, first_response, response, params, url,
                   attempts, tried, httpResp, heap, trace, result>>
    /\ UNCHANGED fnVars

\* line 85, then line 138: the JSON body is returned through list_filings
StatusReturn ==
    /\ pc = "status"
    /\ ~RaisesForStatus(httpResp.status)
    /\ heap' = LoadJson(heap, NumRequests, httpResp.body)
    /\ IF op = "list_filings"
       THEN /\ result' = Ref(RespId(NumRequests))
            /\ response' = response
            /\ pc' = "returned"
       ELSE /\ response' = Ref(RespId(NumRequests))
            /\ result' = result
            /\ pc' = "consume"
    /\ UNCHANGED <<op, args, server, page, first_response, params, url,
                   attempts, tried, httpResp, trace, err>>
    /\ UNCHANGED fnVars

-----------------------------------------------------------------------------
(* LDAClient.list_all_filings, lines 172-189 *)

\* lines 172-173
FirstResponse(first, resp) == IF first = NoneV THEN resp ELSE first

\* line 175: all_results.extend(response.get("results", []))
Extend(h, resp) == Put(h, AccId, h[AccId] \o ResultsOf(h, h[resp.id]))

\* a variant of NextPageExists: the cap is compared with > instead of >=
NextPageExistsCapLate(respDict, pg, max_pages) ==
    IF max_pages # NoneV /\ pg > max_pages.v
    THEN FALSE
    ELSE Truthy(Get(respDict, "next", NoneV))

\* lines 177-179
NextPageExists(respDict, pg, max_pages) ==
    IF max_pages # NoneV /\ pg >= max_pages.v
    THEN FALSE
    ELSE Truthy(Get(respDict, "next", NoneV))

\* lines 182-184: merged = dict(first_response), then two item assignments
MergedDict(firstDict, pg) ==
    Update(firstDict, ("results" :> Ref(AccId)) @@ ("fetched_pages" :> IntV(pg)))

\* a variant of StoreMerged: merged = first_response, without the copy
StoreMergedAliased(h, first, pg) ==
    Put(Put(h, first.id, MergedDict(h[first.id], pg)), MergedId, MergedDict(h[first.id], pg))

\* lines 182-184 on the heap: merged is a new object
StoreMerged(h, first, pg) == Put(h, MergedId, MergedDict(h[first.id], pg))

\* lines 172-185: the last page was consumed
ConsumeReturn ==
    /\ pc = "consume"
    /\ ~NextPageExists(heap[response.id], page, args.max_pages)
    /\ first_response' = FirstResponse(first_response, response)
    /\ heap' = StoreMerged(Extend(heap, response), FirstResponse(first_response, response), page)
    /\ result' = Ref(MergedId)
    /\ pc' = "returned"
    /\ UNCHANGED <<op, args, server, page, response, params, url, attempts, tried,
                   httpResp, trace, err>>
    /\ UNCHANGED fnVars

\* a variant of ConsumeAdvance: the page counter moves on by two
ConsumeAdvanceSkipsPage ==
    /\ pc = "consume"
    /\ NextPageExists(heap[response.id], page, args.max_pages)
    /\ first_response' = FirstResponse(first_response, response)
    /\ heap' = Extend(heap, response)
    /\ page' = page + 2
    /\ pc' = IF args.pause_seconds > 0 THEN "pace_sleep" ELSE "list_filings"
    /\ UNCHANGED <<op, args, server, response, params, url, attempts, tried,
                   httpResp, trace, result, err>>
    /\ UNCHANGED fnVars

\* lines 172-188: another page follows
ConsumeAdvance ==
    /\ pc = "consume"
    /\ NextPageExists(heap[response.id], page, args.max_pages)
    /\ first_response' = FirstResponse(first_response, response)
    /\ heap' = Extend(heap, response)
    /\ page' = page + 1
    /\ pc' = IF args.pause_seconds > 0 THEN "pace_sleep" ELSE "list_filings"
    /\ UNCHANGED <<op, args, server, response, params, url, attempts, tried,
                   httpResp, trace, result, err>>
    /\ UNCHANGED fnVars

\* line 189: time.sleep(pause_seconds)
PaceSleep ==
    /\ pc = "pace_sleep"
    /\ trace' = Append(trace, [e |-> "sleep", seconds |-> args.pause_seconds])
    /\ pc' = "list_filings"
    /\ UNCHANGED <<op, args, server, page, first_response, response, params, url,
                   attempts, tried, httpResp, heap, result, err>>
    /\ UNCHANGED fnVars

Next ==
    \/ CallListFilings
    \/ CallListAllFilings
    \/ ListFilingsRaise
    \/ ListFilingsRequest
    \/ GetResponse
    \/ GetTimeout
    \/ GetNetworkError
    \/ RetrySleep
    \/ StatusRaise
    \/ StatusReturn
    \/ ConsumeReturn
    \/ ConsumeAdvance
    \/ PaceSleep

Spec == Init /\ [][Next]_vars

-----------------------------------------------------------------------------
(* Text helpers: a str is a sequence of one-character strings *)

IsSpace(c) == c \in {" ", "\t", "\n"}

RECURSIVE LStrip(_)
LStrip(s) == IF s # <<>> /\ IsSpace(Head(s)) THEN LStrip(Tail(s)) ELSE s

RECURSIVE RStrip(_)
RStrip(s) == IF s # <<>> /\ IsSpace(s[Len(s)]) THEN RStrip(SubSeq(s, 1, Len(s) - 1)) ELSE s

\* str.strip()
Strip(s) == RStrip(LStrip(s))

\* the first whitespace-free word of s (s does not start with whitespace)
RECURSIVE FirstWord(_)
FirstWord(s) == IF s = <<>> \/ IsSpace(Head(s)) THEN <<>> ELSE <<Head(s)>> \o FirstWord(Tail(s))

\* str.split(): the words between runs of whitespace
RECURSIVE SplitWords(_)
SplitWords(s) ==
    LET t == LStrip(s)
    IN  IF t = <<>> THEN <<>>
        ELSE <<FirstWord(t)>> \o SplitWords(SubSeq(t, Len(FirstWord(t)) + 1, Len(t)))

\* sep.join(parts)
RECURSIVE JoinStr(_, _)
JoinStr(sep, parts) ==
    IF parts = <<>> THEN <<>>
    ELSE IF Len(parts) = 1 THEN parts[1]
    ELSE parts[1] \o sep \o JoinStr(sep, Tail(parts))

\* str(x) of a scalar
StrOf(x) ==
    CASE x.t = "str"  -> x.v
      [] x.t = "int"  -> StrOfInt(x.v)
      [] x.t = "null" -> <<"N", "o", "n", "e">>
      [] x.t = "bool" -> IF x.v THEN <<"T", "r", "u", "e">> ELSE <<"F", "a", "l", "s", "e">>

\* Python's `a or b`
OrElse(a, b) == IF Truthy(a) THEN a ELSE b

\* d.get(k), None when the key is absent
GetOrNone(d, k) == Get(d, k, NoneV)

-----------------------------------------------------------------------------
(* _unique, _normalize_text, _format_address: lines 292-312 *)

\* lines 292-302
RECURSIVE UniqueFrom(_, _)
UniqueFrom(values, ordered) ==
    IF values = <<>> THEN ordered
    ELSE IF ~Truthy(Head(values)) THEN UniqueFrom(Tail(values), ordered)
    ELSE IF \E i \in DOMAIN ordered : ordered[i] = Head(values)
         THEN UniqueFrom(Tail(values), ordered)
    ELSE UniqueFrom(Tail(values), Append(ordered, Head(values)))

\* a variant of Unique: falsy values are dropped, repeats are kept
UniqueKeepsRepeats(values) == SelectSeq(values, Truthy)

Unique(values) == UniqueFrom(values, <<>>)

\* lines 305-308
NormalizeText(value) ==
    IF value = NoneV THEN StrV(<<>>) ELSE StrV(JoinStr(<<" ">>, SplitWords(StrOf(value))))

\* line 312
FormatAddress(parts) ==
    LET kept == SelectSeq(parts, LAMBDA part : Truthy(part) /\ Strip(StrOf(part)) # <<>>)
    IN  JoinStr(<<",", " ">>, [i \in DOMAIN kept |-> Strip(StrOf(kept[i]))])

-----------------------------------------------------------------------------
(* _simplified_row, lines 326-396.  The result is the returned row or the  *)
(* exception the call raised.                                              *)

SIMPLE_CSV_FIELDS ==
    << "registrant_name", "registrant_address", "registrant_contact", "registrant_phone",
       "senate_id", "client_name", "filing_information", "income", "expenses",
       "expenses_method", "dt_posted", "description", "government_entities",
       "filing_uuid", "filing_document_url" >>

Returned(v) == [ok |-> TRUE, val |-> v]
Raised(exc) == [ok |-> FALSE, exc |-> exc]

\* lines 356-358: the names the generator yields, or the exception it raises:
\* iterating None is a TypeError, None.get an AttributeError
RECURSIVE EntityNamesOf(_, _)
EntityNamesOf(entities, names) ==
    IF entities = <<>> THEN Returned(names)
    ELSE IF Head(entities).t # "dict" THEN Raised("AttributeError")
    ELSE EntityNamesOf(Tail(entities), Append(names, GetOrNone(Head(entities).v, "name")))

RECURSIVE ActivityEntityNames(_, _)
ActivityEntityNames(activities, names) ==
    IF activities = <<>> THEN Returned(names)
    ELSE IF Head(activities).t # "dict" THEN Raised("AttributeError")
    ELSE LET entities == Get(Head(activities).v, "government_entities", ListV(<<>>))
         IN  IF entities.t # "list" THEN Raised("TypeError")
             ELSE LET got == EntityNamesOf(entities.v, names)
                  IN  IF got.ok THEN ActivityEntityNames(Tail(activities), got.val) ELSE got

\* lines 355-359
GovernmentEntities(record) ==
    LET activities == Get(record, "lobbying_activities", ListV(<<>>))
    IN  IF activities.t # "list" THEN Raised("TypeError")
        ELSE LET got == ActivityEntityNames(activities.v, <<>>)
             IN  IF got.ok THEN Returned(Unique(got.val)) ELSE got

\* lines 361-364 (reached only when lines 355-359 did not raise)
ActivityDescriptions(record) ==
    LET activities == Get(record, "lobbying_activities", ListV(<<>>)).v
    IN  Unique([i \in DOMAIN activities |-> NormalizeText(GetOrNone(activities[i].v, "description"))])

\* lines 366-370
SenateId(registrant, client) ==
    LET registrant_id == GetOrNone(registrant, "id")
        client_legacy_id == OrElse(GetOrNone(client, "client_id"), GetOrNone(client, "id"))
    IN  IF Truthy(registrant_id) /\ Truthy(client_legacy_id)
        THEN StrV(StrOf(registrant_id) \o <<"-">> \o StrOf(client_legacy_id))
        ELSE NoneV

\* lines 379-387
FilingInformation(record) ==
    LET parts == << StrV(StrOf(GetOrNone(record, "filing_year"))),
                    OrElse(GetOrNone(record, "filing_period_display"), GetOrNone(record, "filing_period")),
                    OrElse(GetOrNone(record, "filing_type_display"), GetOrNone(record, "filing_type")) >>
        kept == SelectSeq(parts, Truthy)
    IN  StrV(JoinStr(<<" ", "|", " ">>, [i \in DOMAIN kept |-> kept[i].v]))

\* lines 327-339: registrant_address
RegistrantAddress(record, registrant) ==
    FormatAddress(<<
        OrElse(GetOrNone(record, "registrant_address_1"), GetOrNone(registrant, "address_1")),
        OrElse(GetOrNone(record, "registrant_address_2"), GetOrNone(registrant, "address_2")),
        OrElse(GetOrNone(record, "registrant_city"), GetOrNone(registrant, "city")),
        OrElse(OrElse(GetOrNone(record, "registrant_state"), GetOrNone(registrant, "state_display")),
               GetOrNone(registrant, "state")),
        OrElse(GetOrNone(record, "registrant_zip"), GetOrNone(registrant, "zip")),
        OrElse(OrElse(GetOrNone(record, "registrant_country"), GetOrNone(registrant, "country_display")),
               GetOrNone(registrant, "country")) >>)

\* line 327, 328: record.get(key) or {}
SubObject(record, key) ==
    IF Truthy(GetOrNone(record, key)) THEN GetOrNone(record, key).v ELSE EmptyDict

\* lines 326-396
SimplifiedRow(record) ==
    LET registrant == SubObject(record, "registrant")
        client == SubObject(record, "client")
        entities == GovernmentEntities(record)
    IN  IF ~entities.ok THEN entities
        \* line 393: str.join raises TypeError on an item that is not a str
        ELSE IF \E i \in DOMAIN entities.val : entities.val[i].t # "str" THEN Raised("TypeError")
        ELSE Returned(
              ("registrant_name" :> GetOrNone(registrant, "name"))
           @@ ("registrant_address" :> StrV(RegistrantAddress(record, registrant)))
           @@ ("registrant_contact" :> GetOrNone(registrant, "contact_name"))
           @@ ("registrant_phone" :> GetOrNone(registrant, "contact_telephone"))
           @@ ("senate_id" :> SenateId(registrant, client))
           @@ ("client_name" :> GetOrNone(client, "name"))
           @@ ("filing_information" :> FilingInformation(record))
           @@ ("income" :> GetOrNone(record, "income"))
           @@ ("expenses" :> GetOrNone(record, "expenses"))
           @@ ("expenses_method" :> OrElse(GetOrNone(record, "expenses_method_display"),
                                           GetOrNone(record, "expenses_method")))
           @@ ("dt_posted" :> GetOrNone(record, "dt_posted"))
           @@ ("description" :>
                  StrV(JoinStr(<<";", " ">>,
                       [i \in DOMAIN ActivityDescriptions(record) |-> ActivityDescriptions(record)[i].v])))
           @@ ("government_entities" :>
                  StrV(JoinStr(<<";", " ">>, [i \in DOMAIN entities.val |-> entities.val[i].v])))
           @@ ("filing_uuid" :> GetOrNone(record, "filing_uuid"))
           @@ ("filing_document_url" :> GetOrNone(record, "filing_document_url")))

-----------------------------------------------------------------------------
(* Raw filing records handed to _simplified_row: every documented key is   *)
(* independently absent, null or set.  Each choice is the part of the      *)
(* record that holds the key (the empty dict when the key is absent).      *)

RegistrantChoices ==
    { EmptyDict,
      "registrant" :> NoneV,
      "registrant" :> DictV(EmptyDict),
      "registrant" :> DictV(("id" :> IntV(12)) @@ ("name" :> StrV(<<"R">>))),
      "registrant" :> DictV(("id" :> NoneV) @@ ("name" :> NoneV)
                             @@ ("address_1" :> StrV(<<" ", "1", " ", "K", " ">>))
                             @@ ("city" :> NoneV)
                             @@ ("state" :> StrV(<<"D", "C">>))
                             @@ ("zip" :> IntV(20001))
                             @@ ("contact_name" :> StrV(<<"N">>))) }

ClientChoices ==
    { EmptyDict,
      "client" :> NoneV,
      "client" :> DictV(("client_id" :> IntV(34)) @@ ("name" :> StrV(<<"C">>))),
      "client" :> DictV("id" :> IntV(34)),
      "client" :> DictV(("client_id" :> NoneV) @@ ("id" :> IntV(34)) @@ ("name" :> NoneV)) }

Activity(description, entities) ==
    DictV(("description" :> description) @@ ("government_entities" :> entities))

Described(text) == DictV("description" :> StrV(text))

Entity(name) == DictV("name" :> name)

ActivitiesChoices ==
    { EmptyDict,
      "lobbying_activities" :> NoneV,
      "lobbying_activities" :> ListV(<<>>),
      "lobbying_activities" :> ListV(<<DictV(EmptyDict)>>),
      "lobbying_activities" :> ListV(<<Activity(StrV(<<"A">>), ListV(<<Entity(StrV(<<"S">>))>>))>>),
      "lobbying_activities" :> ListV(<<Activity(NoneV, NoneV)>>),
      "lobbying_activities" :>
          ListV(<<Described(<<"A">>), Described(<<"A">>), Described(<<"B">>), Described(<<>>)>>),
      "lobbying_activities" :>
          ListV(<<Activity(StrV(<<" ", "a", " ", "\t", "b", " ">>),
                           ListV(<<Entity(StrV(<<"S">>)), Entity(NoneV), Entity(StrV(<<"H">>))>>)),
                  Activity(StrV(<<"a", " ", "b">>),
                           ListV(<<Entity(StrV(<<"H">>)), Entity(StrV(<<"S">>))>>))>>),
      "lobbying_activities" :>
          ListV(<<Activity(StrV(<<" ", "\t">>),
                           ListV(<<Entity(StrV(<<"S", " ", " ", "T">>)), Entity(StrV(<<>>)),
                                   Entity(IntV(0)), Entity(StrV(<<" ">>))>>)),
                  Activity(IntV(7), ListV(<<Entity(StrV(<<"S", " ", "T">>))>>)),
                  Activity(StrV(<<"B", "\n", "\n", "c">>), ListV(<<>>)),
                  Activity(StrV(<<"7">>), ListV(<<Entity(StrV(<<"S", " ", " ", "T">>))>>))>>),
      "lobbying_activities" :>
          ListV(<<Activity(StrV(<<"A">>), ListV(<<Entity(StrV(<<"S">>)), Entity(IntV(5))>>))>>) }

YearChoices == { EmptyDict, "filing_year" :> NoneV, "filing_year" :> IntV(2024) }

PeriodChoices ==
    { EmptyDict,
      "filing_period" :> NoneV,
      ("filing_period" :> StrV(<<"Q", "1">>)) @@ ("filing_period_display" :> StrV(<<"1", "s", "t">>)) }

TypeChoices == { EmptyDict, "filing_type" :> StrV(<<"R", "R">>) }

OtherChoices ==
    { EmptyDict,
      ("income" :> NoneV) @@ ("filing_uuid" :> NoneV) @@ ("expenses_method" :> NoneV),
      ("income" :> IntV(1000)) @@ ("filing_uuid" :> StrV(<<"a", "b", "c">>)),
      ("expenses" :> IntV(5)) @@ ("expenses_method" :> StrV(<<"A">>))
          @@ ("expenses_method_display" :> StrV(<<"M">>))
          @@ ("registrant_address_1" :> StrV(<<"9", " ", "X">>)) }

RawRecords ==
    { r @@ c @@ a @@ y @@ fp @@ ft @@ o :
        r \in RegistrantChoices, c \in ClientChoices, a \in ActivitiesChoices,
        y \in YearChoices, fp \in PeriodChoices, ft \in TypeChoices, o \in OtherChoices }

-----------------------------------------------------------------------------
(* The pure functions are exercised one call at a time *)

ClientQuiet ==
    /\ pc = "idle"
    /\ op = "none"
    /\ args = NoneV
    /\ server = [last |-> 1, omit |-> 0]
    /\ page = 0
    /\ first_response = NoneV
    /\ response = NoneV
    /\ params = EmptyDict
    /\ url = ""
    /\ attempts = 0
    /\ tried = <<>>
    /\ httpResp = NoneV
    /\ heap = [i \in {} |-> <<>>]
    /\ trace = <<>>
    /\ result = NoneV
    /\ err = NoneV

FnInit ==
    /\ ClientQuiet
    /\ fnPc = "idle"
    /\ fnIn = NoneV
    /\ fnOut = NoneV

\* _simplified_row(record)
CallSimplify ==
    /\ fnPc = "idle"
    /\ \E record \in RawRecords :
          /\ fnIn' = record
          /\ fnOut' = SimplifiedRow(record)
    /\ fnPc' = "simplified"
    /\ UNCHANGED clientVars

SpecSimplify == FnInit /\ [][CallSimplify]_vars

-----------------------------------------------------------------------------
(* _write_csv (lda_api.py, lines 272-289) and build_csv (streamlit_app.py, *)
(* lines 19-31).  A file is the sequence of its lines, a line the sequence *)
(* of its cells; quoting is not modelled.                                  *)

MaxRows == 2          \* rows handed to a writer

\* the column names of the rows written here, in lexicographic order
CsvKeys == <<"a", "b", "c">>

CsvValues == {NoneV, StrV(<<"x">>)}

CsvRows == UNION { [keys -> CsvValues] : keys \in SUBSET {CsvKeys[i] : i \in DOMAIN CsvKeys} }

RECURSIVE SeqsUpTo(_, _)
SeqsUpTo(S, n) ==
    IF n = 0 THEN {<<>>}
    ELSE SeqsUpTo(S, n - 1) \cup {Append(q, x) : q \in {r \in SeqsUpTo(S, n - 1) : Len(r) = n - 1}, x \in S}

FieldnameChoices ==
    {NoneV} \cup
    { ListV(q) : q \in { r \in SeqsUpTo({CsvKeys[i] : i \in DOMAIN CsvKeys}, 2) :
                           \A i, j \in DOMAIN r : i # j => r[i] # r[j] } }

\* sorted(keys)
Sorted(keys) == SelectSeq(CsvKeys, LAMBDA k : k \in keys)

\* the csv writer's text for a cell: None is written as the empty string
CsvCell(v) == IF v = NoneV THEN <<>> ELSE StrOf(v)

\* lines 280-284 (streamlit_app.py lines 24-26)
ResolvedFields(rows, fieldnames) ==
    IF fieldnames # NoneV THEN fieldnames.v
    ELSE Sorted(UNION {DOMAIN rows[i] : i \in DOMAIN rows})

\* csv.DictWriter.writerow: the line for a row, or ValueError when the row
\* holds a key outside fieldnames and extrasaction is "raise"
RowLine(row, fields, extrasaction) ==
    IF extrasaction = "raise" /\ DOMAIN row \ {fields[i] : i \in DOMAIN fields} # {}
    THEN Raised("ValueError")
    ELSE Returned([i \in DOMAIN fields |->
                      IF fields[i] \in DOMAIN row THEN CsvCell(row[fields[i]]) ELSE <<>>])

\* lines 287-289: the header, then the rows up to the first that raises
RECURSIVE WriteRows(_, _, _, _)
WriteRows(rows, fields, extrasaction, file) ==
    IF rows = <<>> THEN [ok |-> TRUE, exc |-> "", file |-> file]
    ELSE LET line == RowLine(Head(rows), fields, extrasaction)
         IN  IF line.ok THEN WriteRows(Tail(rows), fields, extrasaction, Append(file, line.val))
             ELSE [ok |-> FALSE, exc |-> line.exc, file |-> file]

HeaderLine(fields) == [i \in DOMAIN fields |-> fields[i]]

\* line 286: csv.DictWriter(fh, fieldnames=resolved_fields) keeps the default
\* extrasaction="raise"
WriteCsvExtras == "raise"

\* streamlit_app.py line 27: extrasaction="ignore"
BuildCsvExtras == "ignore"

\* _write_csv(path, rows, fieldnames=fieldnames)
WriteCsv(rows, fieldnames) ==
    WriteRows(rows, ResolvedFields(rows, fieldnames), WriteCsvExtras,
              <<HeaderLine(ResolvedFields(rows, fieldnames))>>)

\* build_csv(rows, fieldnames)
BuildCsv(rows, fieldnames) ==
    WriteRows(rows, ResolvedFields(rows, fieldnames), BuildCsvExtras,
              <<HeaderLine(ResolvedFields(rows, fieldnames))>>)

\* _write_csv(path, rows, fieldnames=...)
CallWriteCsv ==
    /\ fnPc = "idle"
    /\ \E rows \in SeqsUpTo(CsvRows, MaxRows), fieldnames \in FieldnameChoices :
          /\ fnIn' = [rows |-> rows, fieldnames |-> fieldnames]
          /\ fnOut' = WriteCsv(rows, fieldnames)
    /\ fnPc' = "written"
    /\ UNCHANGED clientVars

\* build_csv(rows, fieldnames)
CallBuildCsv ==
    /\ fnPc = "idle"
    /\ \E rows \in SeqsUpTo(CsvRows, MaxRows), fieldnames \in FieldnameChoices :
          /\ fnIn' = [rows |-> rows, fieldnames |-> fieldnames]
          /\ fnOut' = BuildCsv(rows, fieldnames)
    /\ fnPc' = "built"
    /\ UNCHANGED clientVars

SpecCsv == FnInit /\ [][CallWriteCsv \/ CallBuildCsv]_vars

-----------------------------------------------------------------------------
(* JSON text, as json.dumps(value, ensure_ascii=False) writes it (line 266) *)
(* and as a JSON parser (response.json(), line 85) reads it.  In the       *)
(* records handled here a dict keeps its insertion order: DictV holds the  *)
(* sequence of its <<key, value>> pairs, and keys are character sequences. *)

\* the escapes of a string character
EscapeChar(c) ==
    CASE c = "\"" -> <<"\\", "\"">>
      [] c = "\\" -> <<"\\", "\\">>
      [] c = "\n" -> <<"\\", "n">>
      [] c = "\t" -> <<"\\", "t">>
      [] OTHER    -> <<c>>

RECURSIVE EscapeChars(_)
EscapeChars(s) == IF s = <<>> THEN <<>> ELSE EscapeChar(Head(s)) \o EscapeChars(Tail(s))

JsonString(s) == <<"\"">> \o EscapeChars(s) \o <<"\"">>

RECURSIVE JsonDumps(_)
RECURSIVE JsonItems(_)
RECURSIVE JsonMembers(_)

\* the items of a list, separated by ", "
JsonItems(items) ==
    IF items = <<>> THEN <<>>
    ELSE IF Len(items) = 1 THEN JsonDumps(items[1])
    ELSE JsonDumps(items[1]) \o <<",", " ">> \o JsonItems(Tail(items))

\* the members of a dict, "key": value, separated by ", "
JsonMembers(pairs) ==
    IF pairs = <<>> THEN <<>>
    ELSE LET member == JsonString(pairs[1][1]) \o <<":", " ">> \o JsonDumps(pairs[1][2])
         IN  IF Len(pairs) = 1 THEN member
             ELSE member \o <<",", " ">> \o JsonMembers(Tail(pairs))

JsonDumps(value) ==
    CASE value.t = "null" -> <<"n", "u", "l", "l">>
      [] value.t = "bool" -> IF value.v THEN <<"t", "r", "u", "e">> ELSE <<"f", "a", "l", "s", "e">>
      [] value.t = "int"  -> StrOfInt(value.v)
      [] value.t = "str"  -> JsonString(value.v)
      [] value.t = "list" -> <<"[">> \o JsonItems(value.v) \o <<"]">>
      [] value.t = "dict" -> <<"{">> \o JsonMembers(value.v) \o <<"}">>

\* --- parsing: each parser returns [ok, val, at], `at` the next position ---

ParseFail == [ok |-> FALSE, val |-> NoneV, at |-> 0]
Parsed(v, i) == [ok |-> TRUE, val |-> v, at |-> i]

Digit(c) == c \in {"0", "1", "2", "3", "4", "5", "6", "7", "8", "9"}
DigitValue(c) == CHOOSE d \in 0..9 : DigitChar(d) = c

RECURSIVE SkipSpace(_, _)
SkipSpace(s, i) == IF i <= Len(s) /\ IsSpace(s[i]) THEN SkipSpace(s, i + 1) ELSE i

HasAt(s, i, word) == i + Len(word) - 1 <= Len(s) /\ SubSeq(s, i, i + Len(word) - 1) = word

RECURSIVE ParseDigits(_, _, _)
ParseDigits(s, i, n) ==
    IF i <= Len(s) /\ Digit(s[i]) THEN ParseDigits(s, i + 1, 10 * n + DigitValue(s[i]))
    ELSE Parsed(n, i)

ParseNumber(s, i) ==
    IF s[i] = "-"
    THEN IF i + 1 <= Len(s) /\ Digit(s[i + 1])
         THEN LET m == ParseDigits(s, i + 1, 0) IN Parsed(IntV(0 - m.val), m.at)
         ELSE ParseFail
    ELSE LET m == ParseDigits(s, i, 0) IN Parsed(IntV(m.val), m.at)

\* the characters of a string literal whose opening quote precedes position i
RECURSIVE ParseChars(_, _, _)
ParseChars(s, i, got) ==
    IF i > Len(s) THEN ParseFail
    ELSE IF s[i] = "\"" THEN Parsed(got, i + 1)
    ELSE IF s[i] = "\\"
         THEN IF i + 1 > Len(s) THEN ParseFail
              ELSE CASE s[i + 1] = "\"" -> ParseChars(s, i + 2, Append(got, "\""))
                     [] s[i + 1] = "\\" -> ParseChars(s, i + 2, Append(got, "\\"))
                     [] s[i + 1] = "n"  -> ParseChars(s, i + 2, Append(got, "\n"))
                     [] s[i + 1] = "t"  -> ParseChars(s, i + 2, Append(got, "\t"))
                     [] OTHER           -> ParseFail
    ELSE ParseChars(s, i + 1, Append(got, s[i]))

RECURSIVE ParseValue(_, _)
RECURSIVE ParseItems(_, _, _)
RECURSIVE ParseMembers(_, _, _)

\* the items of an array after "[" or after a comma
ParseItems(s, i, got) ==
    LET item == ParseValue(s, i)
        j == SkipSpace(s, item.at)
    IN  IF ~item.ok \/ j > Len(s) THEN ParseFail
        ELSE IF s[j] = "," THEN ParseItems(s, j + 1, Append(got, item.val))
        ELSE IF s[j] = "]" THEN Parsed(ListV(Append(got, item.val)), j + 1)
        ELSE ParseFail

\* the members of an object after "{" or after a comma
ParseMembers(s, i, got) ==
    LET k == SkipSpace(s, i)
    IN  IF k > Len(s) \/ s[k] # "\"" THEN ParseFail
        ELSE LET key == ParseChars(s, k + 1, <<>>)
                 c == IF key.ok THEN SkipSpace(s, key.at) ELSE 0
             IN  IF ~key.ok \/ c > Len(s) \/ s[c] # ":" THEN ParseFail
                 ELSE LET item == ParseValue(s, c + 1)
                          j == SkipSpace(s, item.at)
                          \* a repeated key keeps its place and takes the later value
                          kept == IF \E n \in DOMAIN got : got[n][1] = key.val
                                  THEN [n \in DOMAIN got |->
                                          IF got[n][1] = key.val THEN <<key.val, item.val>> ELSE got[n]]
                                  ELSE Append(got, <<key.val, item.val>>)
                      IN  IF ~item.ok \/ j > Len(s) THEN ParseFail
                          ELSE IF s[j] = "," THEN ParseMembers(s, j + 1, kept)
                          ELSE IF s[j] = "}" THEN Parsed(DictV(kept), j + 1)
                          ELSE ParseFail

ParseValue(s, i0) ==
    LET i == SkipSpace(s, i0)
    IN  IF i > Len(s) THEN ParseFail
        ELSE IF HasAt(s, i, <<"n", "u", "l", "l">>) THEN Parsed(NoneV, i + 4)
        ELSE IF HasAt(s, i, <<"t", "r", "u", "e">>) THEN Parsed(BoolV(TRUE), i + 4)
        ELSE IF HasAt(s, i, <<"f", "a", "l", "s", "e">>) THEN Parsed(BoolV(FALSE), i + 5)
        ELSE IF s[i] = "\"" THEN
             LET str == ParseChars(s, i + 1, <<>>)
             IN  IF str.ok THEN Parsed(StrV(str.val), str.at) ELSE ParseFail
        ELSE IF s[i] = "[" THEN
             IF SkipSpace(s, i + 1) <= Len(s) /\ s[SkipSpace(s, i + 1)] = "]"
             THEN Parsed(ListV(<<>>), SkipSpace(s, i + 1) + 1)
             ELSE ParseItems(s, i + 1, <<>>)
        ELSE IF s[i] = "{" THEN
             IF SkipSpace(s, i + 1) <= Len(s) /\ s[SkipSpace(s, i + 1)] = "}"
             THEN Parsed(DictV(<<>>), SkipSpace(s, i + 1) + 1)
             ELSE ParseMembers(s, i + 1, <<>>)
        ELSE IF s[i] = "-" \/ Digit(s[i]) THEN ParseNumber(s, i)
        ELSE ParseFail

\* json.loads(text): the value, or a failure when text is not one JSON value
JsonLoads(text) ==
    LET got == ParseValue(text, 1)
    IN  IF got.ok /\ SkipSpace(text, got.at) = Len(text) + 1 THEN got ELSE ParseFail

-----------------------------------------------------------------------------
(* _flatten_record, lines 257-269 *)

\* a variant that forgets the separator
NewKeyUnseparated(prefix, sep, key) == prefix \o key

\* line 261
NewKey(prefix, sep, key) == IF prefix # <<>> THEN prefix \o sep \o key ELSE key

\* line 266
ListLeaf(value) == StrV(JsonDumps(value))

\* lines 259-269: the loop over record.items(), `items` being the dict built
\* so far (a function from flat key to value)
RECURSIVE FlattenInto(_, _, _, _)
FlattenInto(pairs, prefix, sep, items) ==
    IF pairs = <<>> THEN items
    ELSE LET new_key == NewKey(prefix, sep, pairs[1][1])
             value == pairs[1][2]
         IN  IF value.t = "dict"
             THEN FlattenInto(Tail(pairs), prefix, sep,
                              Update(items, FlattenInto(value.v, new_key, sep, <<>>)))
             ELSE IF value.t = "list"
             THEN FlattenInto(Tail(pairs), prefix, sep, Update(items, new_key :> ListLeaf(value)))
             ELSE FlattenInto(Tail(pairs), prefix, sep, Update(items, new_key :> value))

\* _flatten_record(record) with the default prefix="" and sep="."
FlattenRecord(record) == FlattenInto(record, <<>>, <<".">>, <<>>)

-----------------------------------------------------------------------------
(* Records handed to _flatten_record *)

MaxKeys == 2          \* top-level keys of a flattened record

FlatKeys == { <<"a">>, <<"b">>, <<"a", ".", "b">>, <<>> }

FlatValues ==
    { NoneV,
      IntV(1),
      StrV(<<"x">>),
      ListV(<<>>),
      ListV(<<IntV(10), NoneV, BoolV(TRUE)>>),
      ListV(<< StrV(<<"x", "\"", "\\", ",", "]", "\n">>),
               DictV(<< <<<<"a">>, ListV(<<IntV(0 - 2)>>)>>, <<<<"b">>, StrV(<<>>)>> >>),
               ListV(<<BoolV(FALSE)>>) >>),
      DictV(<<>>),
      DictV(<< <<<<"b">>, IntV(2)>> >>),
      DictV(<< <<<<"b">>, ListV(<<StrV(<<"y">>)>>)>>,
               <<<<"a">>, DictV(<< <<<<"b">>, NoneV>>, <<<<>>, IntV(3)>> >>)>> >>) }

DistinctKeys(pairs) == \A i, j \in DOMAIN pairs : i # j => pairs[i][1] # pairs[j][1]

FlatRecords == { r \in SeqsUpTo(FlatKeys \X FlatValues, MaxKeys) : DistinctKeys(r) }

RECURSIVE SetToSeq(_)
SetToSeq(S) == IF S = {} THEN <<>> ELSE LET x == CHOOSE y \in S : TRUE IN <<x>> \o SetToSeq(S \ {x})

\* the items of a flat dict, as a record to flatten again
AsPairs(row) == LET keys == SetToSeq(DOMAIN row) IN [i \in DOMAIN keys |-> <<keys[i], row[keys[i]]>>]

\* _flatten_record(record)
CallFlatten ==
    /\ fnPc = "idle"
    /\ \E record \in FlatRecords :
          /\ fnIn' = record
          /\ fnOut' = [row |-> FlattenRecord(record), again |-> <<>>]
    /\ fnPc' = "flattened"
    /\ UNCHANGED clientVars

\* _flatten_record(_flatten_record(record))
CallFlattenAgain ==
    /\ fnPc = "flattened"
    /\ fnOut' = [fnOut EXCEPT !.again = FlattenRecord(AsPairs(fnOut.row))]
    /\ fnPc' = "reflattened"
    /\ UNCHANGED fnIn
    /\ UNCHANGED clientVars

SpecFlatten == FnInit /\ [][CallFlatten \/ CallFlattenAgain]_vars

-----------------------------------------------------------------------------
(* Properties of the client *)

Last(seq) == seq[Len(seq)]

Min(a, b) == IF a <= b THEN a ELSE b

Called == op # "none"

\* the caller named an identifying filter, by keyword or in additional_filters
Identified ==
    \/ args.client_id # NoneV
    \/ Truthy(args.client_name)
    \/ args.lobbyist_id # NoneV
    \/ Truthy(args.lobbyist_name)
    \/ /\ Truthy(args.additional_filters)
       /\ DOMAIN args.additional_filters.v \cap IdentifyingKeys # {}

\* additional_filters carries a `page` key
PageOverridden ==
    Truthy(args.additional_filters) /\ "page" \in DOMAIN args.additional_filters.v

\* the results the server holds for the page the k-th request asked for
ServedResults(k) ==
    LET body == PageJson(server, Requests[k].params["page"].v)
    IN  IF "results" \in DOMAIN body THEN body["results"].v ELSE <<>>

RECURSIVE ServedConcat(_)
ServedConcat(k) == IF k = 0 THEN <<>> ELSE ServedConcat(k - 1) \o ServedResults(k)

\* C1: list_filings with page > 1 and no identifying filter raises the
\* InvalidQuery ValueError, and the transport was never called.
C1_PageGateBeforeTransport ==
    (Called /\ op = "list_filings" /\ args.page > 1 /\ ~Identified)
        => /\ NumRequests = 0
           /\ attempts = 0
           /\ tried = <<>>
           /\ result = NoneV
           /\ pc \in {"list_filings", "raised"}
           /\ pc = "raised" => err = InvalidQuery

C1_Witness ==
    /\ op = "list_filings"
    /\ args.page > 1
    /\ ~Identified
    /\ pc = "raised"
    /\ err = InvalidQuery
    /\ NumRequests = 0

\* C2: every request sent to the filings endpoint whose page parameter is
\* greater than 1 carries at least one identifying filter.
C2_SentPageCarriesFilter ==
    \A i \in DOMAIN trace :
        (trace[i].e = "request" /\ trace[i].params["page"].v > 1)
            => DOMAIN trace[i].params \cap IdentifyingKeys # {}


\* the number of pages the claim expects list_all_filings to fetch
ExpectedPages ==
    IF args.max_pages = NoneV THEN server.last
    ELSE IF server.last = 0 THEN args.max_pages.v
    ELSE Min(server.last, args.max_pages.v)

FetchedPages == heap[MergedId]["fetched_pages"].v

ReturnedAll == op = "list_all_filings" /\ pc = "returned"

CapGiven == args.max_pages # NoneV /\ args.max_pages.v >= 1

\* C3 as stated: with an identifying filter and no failing page, the number of
\* requests and fetched_pages are n without max_pages and min(n, m) with it.
C3_Original ==
    (ReturnedAll /\ Identified /\ (args.max_pages = NoneV \/ CapGiven))
        => /\ NumRequests = ExpectedPages
           /\ FetchedPages = ExpectedPages

\* C3 (amended): the same, for calls whose additional_filters carry no page
\* key; and every returned result has fetched_pages = number of requests made.
C3_PagerTermination ==
    /\ (ReturnedAll /\ Identified /\ ~PageOverridden /\ (args.max_pages = NoneV \/ CapGiven))
          => /\ NumRequests = ExpectedPages
             /\ FetchedPages = ExpectedPages
    /\ ReturnedAll => FetchedPages = NumRequests
    /\ (op = "list_all_filings" /\ Identified /\ ~PageOverridden /\ CapGiven)
          => NumRequests <= ExpectedPages

C3_Witness ==
    /\ ReturnedAll /\ Identified /\ ~PageOverridden
    /\ server.last = 0
    /\ args.max_pages = IntV(2)
    /\ NumRequests = 2
    /\ FetchedPages = 2

\* C4: the returned value's results are the concatenation, in fetch order, of
\* the fetched pages' results; its other keys except fetched_pages are those
\* of the first response; the first response object is left as received.
C4_AggregatedResult ==
    ReturnedAll =>
        LET merged == heap[MergedId]
            firstBody == PageJson(server, Requests[1].params["page"].v)
            firstObj == heap[RespId(1)]
        IN  /\ result = Ref(MergedId)
            /\ first_response = Ref(RespId(1))
            /\ heap[merged["results"].id] = ServedConcat(NumRequests)
            /\ DOMAIN merged = DOMAIN firstBody \cup {"results", "fetched_pages"}
            /\ \A k \in DOMAIN firstBody \ {"results"} : merged[k] = firstBody[k]
            /\ DOMAIN firstObj = DOMAIN firstBody
            /\ \A k \in DOMAIN firstBody \ {"results"} : firstObj[k] = firstBody[k]
            /\ "results" \in DOMAIN firstObj => firstObj["results"] = Ref(ResultsId(1))
            /\ ResultsOf(heap, firstObj) = ServedResults(1)

C4_Witness ==
    /\ ReturnedAll
    /\ ~PageOverridden
    /\ NumRequests = 3
    /\ server.omit = 2
    /\ Len(heap[AccId]) = 2 * PerPage
    /\ Len(ResultsOf(heap, heap[RespId(1)])) = PerPage

\* C5: within one _request call a second GET is issued iff the first timed
\* out, never a third; timeout-then-response is handled as the response, two
\* timeouts raise the Timeout failure with URL and timeout value, and an HTTP
\* error status or a network error ends the call with no further attempt.
C5_RetryOnceOnTimeout ==
    /\ attempts = Len(tried)
    /\ Len(tried) <= 2
    /\ Len(tried) = 2 => tried[1] = "timeout"
    /\ pc = "get" => tried \in {<<>>, <<"timeout">>}
    /\ pc = "retry_sleep" => tried = <<"timeout">>
    /\ tried = <<"timeout">> => pc \in {"retry_sleep", "get"}
    /\ tried = <<"timeout", "timeout">>
          => pc = "raised" /\ err = TimeoutFailure(BASE_API_URL \o "/filings/", DefaultTimeout)
    /\ (tried # <<>> /\ Last(tried) = "neterr") => pc = "raised" /\ err = NetworkError
    /\ (tried # <<>> /\ Last(tried) = "response")
          => IF httpResp.status \in 200..299
             THEN /\ pc \notin {"get", "retry_sleep"}
                  /\ pc = "raised" => err = InvalidQuery
                  /\ pc # "status" => /\ RespId(NumRequests) \in DOMAIN heap
                                      /\ DOMAIN heap[RespId(NumRequests)] = DOMAIN httpResp.body
             ELSE /\ pc \in {"status", "raised"}
                  /\ pc = "raised" => err = HTTPFailure(httpResp.status, httpResp.text)

C5_Witness ==
    /\ tried = <<"timeout", "response">>
    /\ httpResp.status = 200
    /\ pc = "returned"

\* a request of the running call has failed
RequestFailed ==
    \/ tried = <<"timeout", "timeout">>
    \/ tried # <<>> /\ Last(tried) = "neterr"
    \/ tried # <<>> /\ Last(tried) = "response" /\ httpResp.status >= 400 /\ pc # "status"
    \/ op = "list_all_filings" /\ page > 1 /\ ~Identified /\ pc \notin {"pace_sleep", "list_filings"}

C6_FailState ==
    (op = "list_all_filings" /\ RequestFailed)
        => /\ pc = "raised"
           /\ err # NoneV
           /\ err.kind \in {"Timeout", "HTTPFailure", "InvalidQuery", "Network"}
           /\ result = NoneV
           /\ MergedId \notin DOMAIN heap
           /\ NumRequests <= page

\* C6: when the request for page K fails inside list_all_filings the call ends
\* with that error, returns no aggregated result, and requests nothing more.
C6_FailurePropagates == [] C6_FailState /\ [][~(op = "list_all_filings" /\ RequestFailed)]_vars

C6_Witness ==
    /\ op = "list_all_filings"
    /\ page = 2
    /\ pc = "raised"
    /\ err.kind = "HTTPFailure"
    /\ Len(heap[AccId]) = PerPage

-----------------------------------------------------------------------------
(* Properties of _simplified_row *)

Range(seq) == {seq[i] : i \in DOMAIN seq}

Simplified == fnPc = "simplified"

\* C7: for every record whose documented keys are independently absent or
\* null, _simplified_row returns, without raising, a row whose keys are
\* exactly the 15 names of SIMPLE_CSV_FIELDS.
C7_SimplifyTotal ==
    Simplified => /\ fnOut.ok
                  /\ DOMAIN fnOut.val = Range(SIMPLE_CSV_FIELDS)
                  /\ Cardinality(DOMAIN fnOut.val) = 15

\* the record's value for a key, None when absent or null
Field(d, k) == IF k \in DOMAIN d THEN d[k] ELSE NoneV

SubDict(d, k) == IF Field(d, k).t = "dict" THEN Field(d, k).v ELSE EmptyDict

Text(x) == IF x.t = "int" THEN StrOfInt(x.v) ELSE x.v

\* the columns copied from one source field, with that field
PassThrough(record) ==
      ("registrant_name" :> Field(SubDict(record, "registrant"), "name"))
   @@ ("registrant_contact" :> Field(SubDict(record, "registrant"), "contact_name"))
   @@ ("registrant_phone" :> Field(SubDict(record, "registrant"), "contact_telephone"))
   @@ ("client_name" :> Field(SubDict(record, "client"), "name"))
   @@ ("income" :> Field(record, "income"))
   @@ ("expenses" :> Field(record, "expenses"))
   @@ ("dt_posted" :> Field(record, "dt_posted"))
   @@ ("filing_uuid" :> Field(record, "filing_uuid"))
   @@ ("filing_document_url" :> Field(record, "filing_document_url"))

ExpectedSenateId(record) ==
    LET rid == Field(SubDict(record, "registrant"), "id")
        cid == IF Truthy(Field(SubDict(record, "client"), "client_id"))
               THEN Field(SubDict(record, "client"), "client_id")
               ELSE Field(SubDict(record, "client"), "id")
    IN  IF Truthy(rid) /\ Truthy(cid) THEN StrV(Text(rid) \o <<"-">> \o Text(cid)) ELSE StrV(<<>>)

ExpectedFilingInformation(record) ==
    LET period == IF Truthy(Field(record, "filing_period_display"))
                  THEN Field(record, "filing_period_display") ELSE Field(record, "filing_period")
        type == IF Truthy(Field(record, "filing_type_display"))
                THEN Field(record, "filing_type_display") ELSE Field(record, "filing_type")
        set == SelectSeq(<<Field(record, "filing_year"), period, type>>, Truthy)
    IN  StrV(JoinStr(<<" ", "|", " ">>, [i \in DOMAIN set |-> Text(set[i])]))

\* C8: in the returned row every column whose source fields are unset holds
\* the empty string (never null); senate_id is "{registrant.id}-{client id}"
\* when both are present and empty otherwise; filing_information joins the
\* non-empty ones among year, period and type.
C8_UnsetColumnsEmpty ==
    (Simplified /\ fnOut.ok) =>
        /\ \A col \in DOMAIN fnOut.val : fnOut.val[col] # NoneV
        /\ \A col \in DOMAIN PassThrough(fnIn) :
              PassThrough(fnIn)[col] = NoneV => fnOut.val[col] = StrV(<<>>)
        /\ fnOut.val["senate_id"] = ExpectedSenateId(fnIn)
        /\ fnOut.val["filing_information"] = ExpectedFilingInformation(fnIn)

-----------------------------------------------------------------------------
(* Properties of the CSV writers *)

\* the file the claim describes for these rows and this explicit field list
ConformingFile(rows, fields) ==
    <<fields>> \o [i \in DOMAIN rows |->
                     [j \in DOMAIN fields |->
                         IF fields[j] \in DOMAIN rows[i] /\ rows[i][fields[j]] # NoneV
                         THEN rows[i][fields[j]].v ELSE <<>>]]

\* C9: _write_csv with an explicit fieldnames list writes that list as the
\* header, then every row, a missing key as an empty cell and a key outside
\* the list dropped, without raising.
C9_ExplicitFieldnames ==
    (fnPc = "written" /\ fnIn.fieldnames # NoneV)
        => /\ fnOut.ok
           /\ fnOut.file = ConformingFile(fnIn.rows, fnIn.fieldnames.v)

\* build_csv, which passes extrasaction="ignore", does what C9 describes
BuildCsvConforms ==
    (fnPc = "built" /\ fnIn.fieldnames # NoneV)
        => /\ fnOut.ok
           /\ fnOut.file = ConformingFile(fnIn.rows, fnIn.fieldnames.v)

-----------------------------------------------------------------------------
(* Properties of _flatten_record *)

\* the non-mapping values reachable through nested mappings, with their key paths
RECURSIVE Leaves(_, _)
Leaves(pairs, path) ==
    UNION { IF pairs[i][2].t = "dict"
            THEN Leaves(pairs[i][2].v, Append(path, pairs[i][1]))
            ELSE {[path |-> Append(path, pairs[i][1]), val |-> pairs[i][2]]} : i \in DOMAIN pairs }

DottedJoin(path) == JoinStr(<<".">>, path)

\* the leaf is in the row under its dotted path: a scalar as it is, a list as
\* JSON text that parses back to the list
LeafKept(row, leaf) ==
    /\ DottedJoin(leaf.path) \in DOMAIN row
    /\ IF leaf.val.t = "list"
       THEN /\ row[DottedJoin(leaf.path)].t = "str"
            /\ JsonLoads(row[DottedJoin(leaf.path)].v).ok
            /\ JsonLoads(row[DottedJoin(leaf.path)].v).val = leaf.val
       ELSE row[DottedJoin(leaf.path)] = leaf.val

Flattened == fnPc \in {"flattened", "reflattened"}

\* no nested mapping and no list among the record's values
IsFlat(record) == \A i \in DOMAIN record : record[i][2].t \notin {"dict", "list"}

\* distinct leaves have distinct dotted paths
PathsDistinct(record) ==
    \A l1, l2 \in Leaves(record, <<>>) :
        DottedJoin(l1.path) = DottedJoin(l2.path) => l1.path = l2.path

\* the empty string is not the top-level key of a nested mapping
NoEmptyTopMapping(record) ==
    \A i \in DOMAIN record : ~(record[i][1] = <<>> /\ record[i][2].t = "dict")

FlatAndIdempotent ==
    /\ (Flattened /\ IsFlat(fnIn))
          => /\ DOMAIN fnOut.row = {fnIn[i][1] : i \in DOMAIN fnIn}
             /\ \A i \in DOMAIN fnIn : fnOut.row[fnIn[i][1]] = fnIn[i][2]
    /\ fnPc = "reflattened" => fnOut.again = fnOut.row

\* C10 as stated: for every record, every leaf is in the output under the
\* dotted join of its key path; a flat record is returned unchanged; flatten
\* is idempotent.
C10_Original ==
    /\ Flattened => \A leaf \in Leaves(fnIn, <<>>) : LeafKept(fnOut.row, leaf)
    /\ FlatAndIdempotent

\* C10 (amended): the same for records in which distinct leaves have distinct
\* dotted paths and no nested mapping sits under an empty top-level key; then
\* the output holds exactly the leaves.
C10_FlattenKeepsLeaves ==
    /\ (Flattened /\ PathsDistinct(fnIn) /\ NoEmptyTopMapping(fnIn))
          => /\ \A leaf \in Leaves(fnIn, <<>>) : LeafKept(fnOut.row, leaf)
             /\ DOMAIN fnOut.row = {DottedJoin(leaf.path) : leaf \in Leaves(fnIn, <<>>)}
    /\ FlatAndIdempotent

C10_Witness ==
    /\ fnPc = "reflattened"
    /\ PathsDistinct(fnIn) /\ NoEmptyTopMapping(fnIn)
    /\ \E leaf \in Leaves(fnIn, <<>>) :
          /\ Len(leaf.path) = 2
          /\ leaf.val.t = "list"
          /\ leaf.val.v # <<>>
          /\ LeafKept(fnOut.row, leaf)
    /\ \E leaf \in Leaves(fnIn, <<>>) :
          /\ Len(leaf.path) = 1
          /\ leaf.val.t = "list"
          /\ Len(leaf.val.v) = 3
          /\ LeafKept(fnOut.row, leaf)
    /\ fnOut.again = fnOut.row

-----------------------------------------------------------------------------
(* Properties of the joined columns of _simplified_row *)

\* s with every run of whitespace turned into one space, scanned left to right
RECURSIVE CollapseFrom(_, _)
CollapseFrom(s, out) ==
    IF s = <<>> THEN out
    ELSE IF ~IsSpace(Head(s)) THEN CollapseFrom(Tail(s), Append(out, Head(s)))
    ELSE IF out # <<>> /\ out[Len(out)] # " " THEN CollapseFrom(Tail(s), Append(out, " "))
    ELSE CollapseFrom(Tail(s), out)

\* ... and without a space at either end
Collapsed(s) ==
    LET c == CollapseFrom(s, <<>>)
    IN  IF c # <<>> /\ c[Len(c)] = " " THEN SubSeq(c, 1, Len(c) - 1) ELSE c

ActivitiesOf(record) == Field(record, "lobbying_activities").v

\* the descriptions of the activities in order, as text with whitespace collapsed
DescriptionValues(record) ==
    [i \in DOMAIN ActivitiesOf(record) |->
        LET d == Field(ActivitiesOf(record)[i].v, "description")
        IN  IF d = NoneV THEN StrV(<<>>) ELSE StrV(Collapsed(Text(d)))]

\* the entity names of all activities, activity by activity
RECURSIVE EntityValues(_)
EntityValues(activities) ==
    IF activities = <<>> THEN <<>>
    ELSE LET given == Field(Head(activities).v, "government_entities")
             entities == IF given.t = "list" THEN given.v ELSE <<>>
         IN  [i \in DOMAIN entities |-> Field(entities[i].v, "name")] \o EntityValues(Tail(activities))

\* the positions of vals holding a non-empty value that no earlier position holds
FirstPositions(vals) ==
    { i \in DOMAIN vals : Truthy(vals[i]) /\ \A j \in 1..(i - 1) : vals[j] # vals[i] }

\* the values at those positions, in order of position
FirstOccurrences(vals) ==
    LET at == SelectSeq([i \in DOMAIN vals |-> i], LAMBDA i : i \in FirstPositions(vals))
    IN  [k \in DOMAIN at |-> vals[at[k]].v]

SemicolonJoin(texts) == StrV(JoinStr(<<";", " ">>, texts))

HasActivities == Simplified /\ fnOut.ok /\ Field(fnIn, "lobbying_activities").t = "list"

\* C11: in a returned row, description and government_entities are the "; "
\* join of the distinct non-empty values in order of first occurrence across
\* the activities; descriptions are compared after collapsing whitespace, so
\* empty and whitespace-only ones are skipped; descriptions A, A, B, "" give
\* "A; B".
C11_DedupedColumns ==
    /\ HasActivities =>
          /\ fnOut.val["description"] = SemicolonJoin(FirstOccurrences(DescriptionValues(fnIn)))
          /\ fnOut.val["government_entities"]
                = SemicolonJoin(FirstOccurrences(EntityValues(ActivitiesOf(fnIn))))
    /\ (HasActivities
            /\ DescriptionValues(fnIn) = <<StrV(<<"A">>), StrV(<<"A">>), StrV(<<"B">>), StrV(<<>>)>>)
          => fnOut.val["description"] = StrV(<<"A", ";", " ", "B">>)
    /\ (Simplified /\ fnOut.ok /\ Field(fnIn, "lobbying_activities") = NoneV)
          => /\ fnOut.val["description"] = StrV(<<>>)
             /\ fnOut.val["government_entities"] = StrV(<<>>)

\* a row whose descriptions repeat after collapsing, with a whitespace-only
\* one skipped, and whose entity names repeat across activities
C11_Witness ==
    /\ HasActivities
    /\ \E i, j \in DOMAIN ActivitiesOf(fnIn) :
          /\ i < j
          /\ Field(ActivitiesOf(fnIn)[i].v, "description") # Field(ActivitiesOf(fnIn)[j].v, "description")
          /\ DescriptionValues(fnIn)[i] = DescriptionValues(fnIn)[j]
          /\ Truthy(DescriptionValues(fnIn)[i])
    /\ \E i, j \in DOMAIN EntityValues(ActivitiesOf(fnIn)) :
          /\ i < j
          /\ EntityValues(ActivitiesOf(fnIn))[i] = EntityValues(ActivitiesOf(fnIn))[j]
          /\ Truthy(EntityValues(ActivitiesOf(fnIn))[i])
    /\ Len(FirstOccurrences(DescriptionValues(fnIn))) >= 2
    /\ Len(FirstOccurrences(EntityValues(ActivitiesOf(fnIn)))) >= 2
    /\ fnOut.val["description"] = SemicolonJoin(FirstOccurrences(DescriptionValues(fnIn)))

-----------------------------------------------------------------------------
(* Properties of the pager's request sequence *)

\* list_all_filings was called with filters that hold no page key
Pager == op = "list_all_filings" /\ ~PageOverridden

\* a request is under way in _request
InFlight == pc \in {"get", "retry_sleep", "status"}

Ended == pc \in {"returned", "raised"}

\* requests and pacing sleeps alternate, starting with a request
PacedTrace == \A k \in DOMAIN trace : trace[k].e = IF k % 2 = 1 THEN "request" ELSE "sleep"

\* page i, as served, is followed by another page within the cap
NonTerminal(i) ==
    /\ Truthy(Field(PageJson(server, i), "next"))
    /\ args.max_pages = NoneV \/ i < args.max_pages.v

\* the i-th request asks for page i; while request n is under way the
\* responses of pages 1..n-1 were received and their results appended; the
\* trace holds no sleep without pacing, and alternates with pacing
SequentialPages ==
    Pager =>
        /\ \A i \in 1..NumRequests : Requests[i].params["page"] = IntV(i)
        /\ InFlight =>
              /\ \A k \in 1..(NumRequests - 1) : RespId(k) \in DOMAIN heap
              /\ heap[AccId] = ServedConcat(NumRequests - 1)
        /\ args.pause_seconds = 0 => Sleeps = <<>>
        /\ args.pause_seconds > 0 => PacedTrace

\* C12 as stated: pages are requested as 1, 2, 3, ... one after the other,
\* with exactly one pacing sleep between two consecutive requests and no
\* sleep after the last page requested.
C12_Original ==
    /\ SequentialPages
    /\ (Pager /\ Ended /\ trace # <<>>) => Last(trace).e = "request"

\* C12 (amended): the same, with no sleep after a page that is terminal: every
\* sleep follows a page with a truthy next below the cap, a returned call
\* ends on a request, and a call ends on a sleep only when the next call of
\* list_filings was refused for lack of an identifying filter.
C12_PageSequence ==
    /\ SequentialPages
    /\ Pager => \A k \in DOMAIN trace : trace[k].e = "sleep" => NonTerminal(k \div 2)
    /\ (Pager /\ pc = "returned") => Last(trace).e = "request"
    /\ (Pager /\ Ended /\ trace # <<>> /\ Last(trace).e = "sleep")
          => /\ err = InvalidQuery
             /\ ~Identified

C12_Witness ==
    /\ Pager
    /\ pc = "returned"
    /\ args.pause_seconds > 0
    /\ NumRequests = 3
    /\ Len(Sleeps) = 2
    /\ Requests[3].params["page"] = IntV(3)
    /\ Len(heap[AccId]) = 3 * PerPage

-----------------------------------------------------------------------------
(* Properties of the pager called without an identifying filter *)

Unidentified == op = "list_all_filings" /\ ~Identified

\* the response of the first request was received
FirstPageFetched == RespId(1) \in DOMAIN heap

\* at most one request, for page 1; a returned result has fetched_pages = 1
\* and page 1 was terminal; once page 1 was fetched the only failure is the
\* InvalidQuery for page 2, raised with page 1 non-terminal and nothing
\* returned; InvalidQuery is raised only after page 1 was fetched
OneRequestThenRefused ==
    /\ NumRequests <= 1
    /\ \A i \in 1..NumRequests : Requests[i].params["page"] = IntV(1)
    /\ pc = "returned" => /\ FetchedPages = 1
                          /\ ~NonTerminal(1)
                          /\ heap[heap[MergedId]["results"].id] = ServedResults(1)
    /\ (pc = "raised" /\ FirstPageFetched)
          => /\ err = InvalidQuery
             /\ NonTerminal(1)
             /\ page = 2
             /\ result = NoneV
    /\ err = InvalidQuery => /\ NumRequests = 1
                             /\ FirstPageFetched
                             /\ heap[AccId] = ServedResults(1)

=============================================================================
